---- MODULE Spec2Model ----
(***************************************************************************)
(* A model of the key-value store of courses/rust/projects/my-porject-1.   *)
(*                                                                         *)
(* KvStore (src/kv.rs) keeps one log file, <dir>/db, and an in-memory      *)
(* index from key to (offset, length).  Every set and remove appends one   *)
(* record, an 8-byte big-endian length followed by the JSON text of the    *)
(* record, and open rebuilds the index by replaying the file.              *)
(*                                                                         *)
(* The file is modelled byte by byte and strings are sequences of          *)
(* character codes, so that the encoding, the replay and the positions     *)
(* kept in the index are computed the way the code computes them.          *)
(***************************************************************************)
EXTENDS Integers, Sequences, FiniteSets, TLC

(***************************************************************************)
(* Bounds of the model.                                                    *)
(***************************************************************************)
\* calls of KvStore::write_record in one run
MaxWrites == 3
\* of these, calls in which a write to the file fails
MaxFaults == 1

\* size_of::<usize>() on a 64-bit target: the width of the length prefix
PrefixWidth == 8

\* "", "a", "b"
Keys == {<< >>, <<97>>, <<98>>}
\* "1" and the one-character string holding a double quote
Values == {<<49>>, <<34>>}

\* the number of bytes of the length prefix that reached the file when
\* write_all(&length.to_be_bytes()) failed (0: nothing was written)
PrefixCuts == {0, 3}
\* the number of bytes of the payload that reached the file when
\* write_all(&bytes) failed
PayloadCuts == {0, 5}

(***************************************************************************)
(* Record (kv.rs:146-150) and its JSON text.                               *)
(***************************************************************************)
Set(k, v) == [tag |-> "Set", key |-> k, value |-> v]
Remove(k) == [tag |-> "Remove", key |-> k, value |-> << >>]

\* Option<String>: None is the empty sequence, Some(v) is <<v>>
None == << >>
Some(v) == <<v>>

\* usize::to_be_bytes: w bytes, most significant first
RECURSIVE be_bytes(_, _)
be_bytes(n, w) == IF w = 0 THEN << >>
                  ELSE Append(be_bytes(n \div 256, w - 1), n % 256)

to_be_bytes(n) == be_bytes(n, PrefixWidth)

\* usize::from_be_bytes of an 8-byte slice.  A value that does not fit 31
\* bits is reported as 2^31 - 1: it is beyond the end of any file of the model,
\* as the value itself is.
from_be_bytes(b) ==
    IF (\E i \in 1..4 : b[i] # 0) \/ b[5] >= 128
    THEN 2147483647
    ELSE ((b[5] * 256 + b[6]) * 256 + b[7]) * 256 + b[8]

\* the text of a JSON string: '"' and '\' are escaped with a backslash
RECURSIVE escape(_)
escape(s) ==
    IF s = << >> THEN << >>
    ELSE IF Head(s) = 34 \/ Head(s) = 92
         THEN <<92, Head(s)>> \o escape(Tail(s))
         ELSE <<Head(s)>> \o escape(Tail(s))

json_string(s) == <<34>> \o escape(s) \o <<34>>

\* {"Set":[  and  {"Remove":
SetOpen == <<123, 34, 83, 101, 116, 34, 58, 91>>
RemoveOpen == <<123, 34, 82, 101, 109, 111, 118, 101, 34, 58>>

\* serde_json::to_string(&record): the externally tagged form of the enum,
\* {"Set":["k","v"]} or {"Remove":"k"}
to_string(record) ==
    IF record.tag = "Set"
    THEN SetOpen \o json_string(record.key) \o <<44>>
                 \o json_string(record.value) \o <<93, 125>>
    ELSE RemoveOpen \o json_string(record.key) \o <<125>>

StartsWith(s, p) == Len(s) >= Len(p) /\ SubSeq(s, 1, Len(p)) = p

\* Reads a JSON string that starts at s[i]: [ok, str, next], next being the
\* index after the closing quote.  A control character, a byte that is not
\* ASCII, an unknown escape or the end of the text inside the string is an
\* error.
RECURSIVE parse_chars(_, _, _)
parse_chars(s, i, acc) ==
    IF i > Len(s) THEN [ok |-> FALSE, str |-> acc, next |-> i]
    ELSE IF s[i] = 34 THEN [ok |-> TRUE, str |-> acc, next |-> i + 1]
    ELSE IF s[i] = 92
         THEN IF i + 1 <= Len(s) /\ s[i + 1] \in {34, 92}
              THEN parse_chars(s, i + 2, Append(acc, s[i + 1]))
              ELSE [ok |-> FALSE, str |-> acc, next |-> i]
    ELSE IF s[i] < 32 \/ (s[i] > 127 /\ s[i] < 256)
         THEN [ok |-> FALSE, str |-> acc, next |-> i]
    ELSE parse_chars(s, i + 1, Append(acc, s[i]))

parse_string(s, i) ==
    IF i <= Len(s) /\ s[i] = 34 THEN parse_chars(s, i + 1, << >>)
    ELSE [ok |-> FALSE, str |-> << >>, next |-> i]

Rest(s, i) == SubSeq(s, i, Len(s))

\* serde_json::from_str::<Record>(s): [ok, rec].  The whole text must be one
\* record; anything else is Err(Serde).
from_str(s) ==
    LET bad == [ok |-> FALSE, rec |-> Remove(<< >>)] IN
    IF StartsWith(s, SetOpen)
    THEN LET k == parse_string(s, Len(SetOpen) + 1) IN
         IF ~k.ok \/ k.next > Len(s) \/ s[k.next] # 44 THEN bad
         ELSE LET v == parse_string(s, k.next + 1) IN
              IF v.ok /\ Rest(s, v.next) = <<93, 125>>
              THEN [ok |-> TRUE, rec |-> Set(k.str, v.str)]
              ELSE bad
    ELSE IF StartsWith(s, RemoveOpen)
    THEN LET k == parse_string(s, Len(RemoveOpen) + 1) IN
         IF k.ok /\ Rest(s, k.next) = <<125>>
         THEN [ok |-> TRUE, rec |-> Remove(k.str)]
         ELSE bad
    ELSE bad

\* String::from_utf8_lossy: ASCII bytes are kept, a byte that starts no valid
\* sequence becomes U+FFFD
from_utf8_lossy(bytes) ==
    [i \in 1..Len(bytes) |-> IF bytes[i] < 128 THEN bytes[i] ELSE 65533]

\* serde_json::from_slice(&bytes)
from_slice(bytes) == from_str(bytes)

(***************************************************************************)
(* The state.                                                              *)
(***************************************************************************)
VARIABLES
    file,       \* the bytes of <dir>/db (empty when the file does not exist)
    opened,     \* a KvStore value exists
    index,      \* KvStore.index: key -> <<offset, length>>
    ret,        \* the last call and what it returned
    written,    \* calls of write_record so far
    faults,     \* calls of write_record in which a write failed
    lastOp,     \* per key, the last successful set or remove
    snapshot,   \* per key, what get returned when the store was last dropped
    threshold,  \* the compaction threshold of the specification
    log_count   \* the record count the specification compares with it

vars == <<file, opened, index, ret, written, faults, lastOp, snapshot,
          threshold, log_count>>

\* Storage (src/storages.rs), the segment log.  KvStore does not use it: it
\* has a directory and a state of its own.
VARIABLES
    dir,          \* the directory at Storage.path: segment id -> bytes of <id>.kv
    files,        \* Storage.files: the segment each handle is open on, in order
    record_count, \* Storage.record_count
    storage,      \* a Storage value exists
    sret,         \* the last call on the Storage and what it returned
    appended,     \* per successful write_record on this directory, in order,
                  \* the payload and the position returned
    visited,      \* what the last init passed to its visitor, in order
    returned,     \* the part of appended that this Storage value returned
    appends       \* calls of write_record so far

svars == <<dir, files, record_count, storage, sret, appended, visited,
           returned, appends>>

EmptyIndex == [k \in {} |-> <<0, 0>>]

Result(op, key, value, res, val) ==
    [op |-> op, key |-> key, value |-> value, res |-> res, val |-> val]

\* a store that checks no key
is_empty_never(key) == FALSE

\* String::is_empty
is_empty(key) == key = << >>

\* an entry that is only ever filled once
index_insert_vacant_only(idx, key, position) ==
    [k \in (DOMAIN idx) \cup {key} |->
        IF k \in DOMAIN idx THEN idx[k] ELSE position]

\* HashMap entry(key): Vacant -> insert, Occupied -> insert (kv.rs:132-135,
\* kv.rs:106-113): the position replaces whatever was there
index_insert(idx, key, position) ==
    [k \in (DOMAIN idx) \cup {key} |-> IF k = key THEN position ELSE idx[k]]

\* a removal that leaves the entry where it is
index_remove_noop(idx, key) == idx

\* HashMap::remove
index_remove(idx, key) == [k \in (DOMAIN idx) \ {key} |-> idx[k]]

\* a seek to the start of the file instead of its end
seek_start(f) == 0

\* file.seek(SeekFrom::End(0)): the offset of the end of the file
seek_end(f) == Len(f)

\* file.seek(SeekFrom::Start(at)) and read_exact of length bytes: [ok, bytes];
\* read_exact fails when the file ends before length bytes were read
read_exact_at(f, at, length) ==
    IF length > Len(f) - at
    THEN [ok |-> FALSE, bytes |-> << >>]
    ELSE [ok |-> TRUE, bytes |-> SubSeq(f, at + 1, at + length)]

\* a read that does not skip the length prefix
payload_start_at_prefix(position) == position[1]

\* position.0 + size_of::<usize>(): where the payload of a record starts
payload_start(position) == position[1] + PrefixWidth

\* KvStore::get, as a function of the store: [res, val]
get_result(idx, f, key) ==
    IF is_empty(key) THEN [res |-> "InvalidKey", val |-> None]
    ELSE IF key \in DOMAIN idx
    THEN LET position == idx[key]
             length == position[2]
             rd == read_exact_at(f, payload_start(position), length)
         IN  IF ~rd.ok THEN [res |-> "Io", val |-> None]
             ELSE LET record == from_slice(rd.bytes) IN
                  IF ~record.ok THEN [res |-> "Serde", val |-> None]
                  ELSE IF record.rec.tag = "Remove"
                       THEN [res |-> "Ok", val |-> None]
                       ELSE [res |-> "Ok", val |-> Some(record.rec.value)]
    ELSE [res |-> "Ok", val |-> None]

\* a replay in which the first Set of a key wins
replay_apply_first_wins(idx, record, position) ==
    IF record.tag = "Remove"
    THEN [k \in (DOMAIN idx) \ {record.key} |-> idx[k]]
    ELSE [k \in (DOMAIN idx) \cup {record.key} |->
             IF k \in DOMAIN idx THEN idx[k] ELSE position]

\* the match of KvStore::open on a replayed record
replay_apply(idx, record, position) ==
    IF record.tag = "Remove"
    THEN index_remove(idx, record.key)
    ELSE index_insert(idx, record.key, position)

\* The loop of KvStore::open over the bytes of the file: [res, index].
\* Slicing beyond the end of the bytes panics; text that is no record is
\* Err(Serde).
RECURSIVE replay(_, _, _)
replay(bytes, cursor, idx) ==
    IF ~(cursor < Len(bytes)) THEN [res |-> "Ok", index |-> idx]
    ELSE IF PrefixWidth > Len(bytes) - cursor
    THEN [res |-> "Panic", index |-> idx]
    ELSE LET length == from_be_bytes(SubSeq(bytes, cursor + 1, cursor + PrefixWidth))
             position == <<cursor, length>>
             c == cursor + PrefixWidth
         IN  IF length > Len(bytes) - c
             THEN [res |-> "Panic", index |-> idx]
             ELSE LET json_str == from_utf8_lossy(SubSeq(bytes, c + 1, c + length))
                      record == from_str(json_str)
                  IN  IF ~record.ok THEN [res |-> "Serde", index |-> idx]
                      ELSE replay(bytes, c + length,
                                  replay_apply(idx, record.rec, position))

\* the records replay visits before it stops, counted up to limit
RECURSIVE count_records(_, _, _)
count_records(bytes, cursor, limit) ==
    IF limit = 0 \/ ~(cursor < Len(bytes)) \/ PrefixWidth > Len(bytes) - cursor
    THEN 0
    ELSE LET length == from_be_bytes(SubSeq(bytes, cursor + 1, cursor + PrefixWidth))
             c == cursor + PrefixWidth
         IN  IF length > Len(bytes) - c THEN 0
             ELSE 1 + count_records(bytes, c + length, limit - 1)

(***************************************************************************)
(* The operations.                                                         *)
(***************************************************************************)
Init ==
    /\ file = << >>
    /\ opened = FALSE
    /\ index = EmptyIndex
    /\ ret = Result("none", << >>, << >>, "Ok", None)
    /\ written = 0
    /\ faults = 0
    /\ lastOp = [k \in Keys |-> None]
    /\ snapshot = [k \in Keys |-> get_result(EmptyIndex, << >>, k)]
    /\ threshold = 0
    /\ log_count = 0
    /\ dir = [id \in {} |-> << >>]
    /\ files = << >>
    /\ record_count = 0
    /\ storage = FALSE
    /\ sret = [op |-> "none", res |-> "Ok"]
    /\ appended = << >>
    /\ visited = << >>
    /\ returned = << >>
    /\ appends = 0

\* file.write_all(bytes) with the handle positioned at offset at
write_at(f, at, bytes) ==
    SubSeq(f, 1, at) \o bytes \o SubSeq(f, at + Len(bytes) + 1, Len(f))

\* KvStore::write_record, every step succeeding
write_record_ok(op, record) ==
    LET bytes == to_string(record)
        length == Len(bytes)
        offset == seek_end(file)
    IN  /\ file' = write_at(write_at(file, offset, to_be_bytes(length)),
                            offset + PrefixWidth, bytes)
        /\ index' = index_insert(index, record.key, <<offset, length>>)
        /\ ret' = Result(op, record.key, record.value, "Ok", None)

\* KvStore::write_record, write_all of the length prefix failing after n of
\* its bytes were written; the ? operator returns Err(Io) at once
write_record_prefix_fails(op, record, n) ==
    LET bytes == to_string(record)
        length == Len(bytes)
        offset == seek_end(file)
    IN  /\ n < PrefixWidth
        /\ file' = write_at(file, offset, SubSeq(to_be_bytes(length), 1, n))
        /\ index' = index
        /\ ret' = Result(op, record.key, record.value, "Io", None)

\* KvStore::write_record, write_all of the payload failing after m of its
\* bytes were written
write_record_payload_fails(op, record, m) ==
    LET bytes == to_string(record)
        length == Len(bytes)
        offset == seek_end(file)
    IN  /\ m < length
        /\ file' = write_at(write_at(file, offset, to_be_bytes(length)),
                            offset + PrefixWidth, SubSeq(bytes, 1, m))
        /\ index' = index
        /\ ret' = Result(op, record.key, record.value, "Io", None)

write_record(op, record) ==
    /\ written' = written + 1
    /\ \/ /\ write_record_ok(op, record)
          /\ faults' = faults
       \/ /\ faults < MaxFaults
          /\ faults' = faults + 1
          /\ \E n \in PrefixCuts : write_record_prefix_fails(op, record, n)
       \/ /\ faults < MaxFaults
          /\ faults' = faults + 1
          /\ \E m \in PayloadCuts : write_record_payload_fails(op, record, m)

\* the last successful set or remove of each key, and the number of records
\* appended, after this call
Noted(key, what) ==
    /\ lastOp' = IF ret'.res = "Ok" THEN [lastOp EXCEPT ![key] = what] ELSE lastOp
    /\ log_count' = IF ret'.res = "Ok" THEN log_count + 1 ELSE log_count

\* KvStore::set
set(key, value) ==
    /\ opened
    /\ IF is_empty(key)
       THEN /\ ret' = Result("set", key, value, "InvalidKey", None)
            /\ UNCHANGED <<file, index, written, faults, lastOp, log_count>>
       ELSE /\ write_record("set", Set(key, value))
            /\ Noted(key, Some(Set(key, value)))
    /\ UNCHANGED <<opened, snapshot, threshold>>

\* KvStore::get
get(key) ==
    /\ opened
    /\ LET r == get_result(index, file, key) IN
       ret' = Result("get", key, << >>, r.res, r.val)
    /\ UNCHANGED <<file, opened, index, written, faults, lastOp, snapshot,
                   threshold, log_count>>

\* KvStore::remove
remove(key) ==
    /\ opened
    /\ IF is_empty(key)
       THEN /\ ret' = Result("remove", key, << >>, "InvalidKey", None)
            /\ UNCHANGED <<file, index, written, faults, lastOp, log_count>>
       ELSE IF key \in DOMAIN index
       THEN /\ write_record("remove", Remove(key))
            /\ Noted(key, Some(Remove(key)))
       ELSE /\ ret' = Result("remove", key, << >>, "KeyNotFound", None)
            /\ UNCHANGED <<file, index, written, faults, lastOp, log_count>>
    /\ UNCHANGED <<opened, snapshot, threshold>>

\* the additive constant of the compaction threshold
ThresholdOffset == 371

\* KvStore::open on the directory of the model.  The store exists only when
\* open returns Ok; a panic ends the process.
open ==
    /\ ~opened
    /\ LET r == replay(file, 0, EmptyIndex) IN
       /\ opened' = (r.res = "Ok")
       /\ index' = IF r.res = "Ok" THEN r.index ELSE EmptyIndex
       /\ ret' = Result("open", << >>, << >>, r.res, None)
    /\ log_count' = count_records(file, 0, Len(file))
    /\ threshold' = 2 * log_count' + ThresholdOffset
    /\ UNCHANGED <<file, written, faults, lastOp, snapshot>>

\* Drop of the KvStore: File::flush does nothing, the bytes are in the file
drop ==
    /\ opened
    /\ opened' = FALSE
    /\ index' = EmptyIndex
    /\ snapshot' = [k \in Keys |-> get_result(index, file, k)]
    /\ ret' = Result("drop", << >>, << >>, "Ok", None)
    /\ UNCHANGED <<file, written, faults, lastOp, threshold, log_count>>

\* The calls a client can make; a run makes at most MaxWrites calls that
\* reach write_record.
Next ==
    \/ open /\ UNCHANGED svars
    \/ drop /\ UNCHANGED svars
    \/ \E key \in Keys, value \in Values :
          set(key, value) /\ written' <= MaxWrites /\ UNCHANGED svars
    \/ \E key \in Keys : get(key) /\ UNCHANGED svars
    \/ \E key \in Keys : remove(key) /\ written' <= MaxWrites /\ UNCHANGED svars

Spec == Init /\ [][Next]_vars

\* One client that opens the store on the empty directory and sets one key
\* over and over, every write succeeding, up to the threshold.
LongNext ==
    \/ open /\ UNCHANGED svars
    \/ /\ set(<<97>>, <<49>>)
       /\ faults' = 0
       /\ written' <= ThresholdOffset
       /\ UNCHANGED svars

LongSpec == Init /\ [][LongNext]_vars

(***************************************************************************)
(* Storage (src/storages.rs): a directory of segment files <id>.kv, each a   *)
(* run of length-prefixed records.  The writes of the segment log are      *)
(* modelled as succeeding; the failures of replace are modelled below.     *)
(***************************************************************************)
\* Storage::MAX_RECORDS_COUNT_PER_FILE is 1000 in the source; the model runs
\* the log with a cap of a few records
SegmentCap == 2
\* calls of Storage::write_record in one run
MaxAppends == 12

\* the payload of the write_record that follows n others: one or two bytes
\* that tell the records apart
Payloads(n) == {IF n % 2 = 0 THEN <<n>> ELSE <<n, n>>}

EmptyDir == [id \in {} |-> << >>]

\* ValuePosition; file is the index of the handle in Storage.files, from 0
ValuePosition(f, offset, length) ==
    [file |-> f, offset |-> offset, length |-> length]

\* the decimal digits of n
RECURSIVE digits(_)
digits(n) == IF n < 10 THEN <<48 + n>>
             ELSE Append(digits(n \div 10), 48 + (n % 10))

\* format!("{}.kv", id)
file_name(id) == digits(id) \o <<46, 107, 118>>

\* the order of OsString: byte by byte, a proper prefix first
RECURSIVE os_str_less(_, _)
os_str_less(a, b) ==
    IF b = << >> THEN FALSE
    ELSE IF a = << >> THEN TRUE
    ELSE IF Head(a) # Head(b) THEN Head(a) < Head(b)
    ELSE os_str_less(Tail(a), Tail(b))

\* file_path.sort_by_key(|it| it.file_name()): the segments in the order of
\* their file names
sort_by_file_name(ids) ==
    [i \in 1..Cardinality(ids) |->
        CHOOSE x \in ids :
            Cardinality({y \in ids : os_str_less(file_name(y), file_name(x))}) = i - 1]

\* The while loop of Storage::init over the bytes of the i-th file, seen
\* holding what the visitor was passed before: [res, visited], visited being
\* the (payload, position) pairs passed to the visitor.  Slicing beyond the
\* end of the bytes panics.
RECURSIVE replay_file(_, _, _, _)
replay_file(bytes, cursor, i, seen) ==
    IF ~(cursor < Len(bytes)) THEN [res |-> "Ok", visited |-> seen]
    ELSE IF PrefixWidth > Len(bytes) - cursor
    THEN [res |-> "Panic", visited |-> seen]
    ELSE LET length == from_be_bytes(SubSeq(bytes, cursor + 1, cursor + PrefixWidth))
             position == ValuePosition(i, cursor, length)
             c == cursor + PrefixWidth
         IN  IF length > Len(bytes) - c
             THEN [res |-> "Panic", visited |-> seen]
             ELSE replay_file(bytes, c + length, i,
                      Append(seen, [bytes |-> SubSeq(bytes, c + 1, c + length),
                                    position |-> position]))

\* The for loop of Storage::init over the opened files, from the n-th on
RECURSIVE replay_files(_, _, _, _)
replay_files(fs, d, n, seen) ==
    IF n > Len(fs) THEN [res |-> "Ok", visited |-> seen]
    ELSE LET this == replay_file(d[fs[n]], 0, n - 1, seen) IN
         IF this.res # "Ok" THEN this
         ELSE replay_files(fs, d, n + 1, this.visited)

\* OpenOptions::new().read(true).write(true).create(true).open(<id>.kv): the
\* file is created empty unless it exists
create(d, id) ==
    [i \in (DOMAIN d) \cup {id} |-> IF i \in DOMAIN d THEN d[i] ELSE << >>]

\* Storage::init on the directory, with a visitor that accepts every record
storage_init ==
    /\ ~storage
    /\ \E file_path \in {sort_by_file_name(DOMAIN dir)} :
       \E fs \in {IF Len(file_path) = 0 THEN <<0>> ELSE file_path} :
       \E d \in {IF Len(file_path) = 0 THEN create(dir, 0) ELSE dir} :
       \E r \in {replay_files(fs, d, 1, << >>)} :
           /\ dir' = d
           /\ storage' = (r.res = "Ok")
           /\ files' = IF r.res = "Ok" THEN fs ELSE << >>
           /\ record_count' =
                 IF r.res = "Ok"
                 THEN Cardinality({j \in DOMAIN r.visited :
                                     r.visited[j].position.file = Len(fs) - 1})
                 ELSE 0
           /\ visited' = r.visited
           /\ sret' = [op |-> "init", res |-> r.res]
    /\ returned' = << >>
    /\ UNCHANGED <<appended, appends>>

\* a position taken after the new segment was pushed
written_position_after_push(fs, count, offset, length) ==
    ValuePosition(IF count >= SegmentCap THEN Len(fs) ELSE Len(fs) - 1,
                  offset, length)

\* the ValuePosition write_record returns: the handle written to is the last
\* one before any new segment is pushed
written_position(fs, count, offset, length) ==
    ValuePosition(Len(fs) - 1, offset, length)

\* Storage::write_record as a function of the handles, the directory and
\* record_count: what they become, and the position returned.  record_count
\* is only ever incremented.
write_record_to(fs, d, record_count_before, bytes) ==
    LET length == Len(bytes)
        last == fs[Len(fs)]
        offset == seek_end(d[last])
        d1 == [d EXCEPT ![last] =
                  write_at(write_at(@, offset, to_be_bytes(length)),
                           offset + PrefixWidth, bytes)]
        count == record_count_before + 1
    IN  [record_count |-> count,
         position |-> written_position(fs, count, offset, length),
         files |-> IF count >= SegmentCap THEN Append(fs, Len(fs)) ELSE fs,
         dir |-> IF count >= SegmentCap THEN create(d1, Len(fs)) ELSE d1]

\* Storage::write_record
storage_write_record(bytes) ==
    /\ storage
    /\ \E w \in {write_record_to(files, dir, record_count, bytes)} :
           /\ record_count' = w.record_count
           /\ files' = w.files
           /\ dir' = w.dir
           /\ sret' = [op |-> "write_record", res |-> "Ok",
                       position |-> w.position, bytes |-> bytes]
           /\ appended' = Append(appended, [bytes |-> bytes, position |-> w.position])
           /\ returned' = Append(returned, [bytes |-> bytes, position |-> w.position])
    /\ appends' = appends + 1
    /\ UNCHANGED <<storage, visited>>

\* Storage::read_record, as a function of the handles and the directory:
\* [res, bytes]; files.get(..).unwrap() panics on a handle that does not exist
read_record(fs, d, position) ==
    IF position.file >= Len(fs) THEN [res |-> "Panic", bytes |-> << >>]
    ELSE LET rd == read_exact_at(d[fs[position.file + 1]],
                                 position.offset + PrefixWidth, position.length)
         IN  IF rd.ok THEN [res |-> "Ok", bytes |-> rd.bytes]
             ELSE [res |-> "Io", bytes |-> << >>]

\* Storage::read_record of a position that write_record returned
storage_read_record(position) ==
    /\ storage
    /\ LET r == read_record(files, dir, position) IN
       sret' = [op |-> "read_record", res |-> r.res,
                position |-> position, bytes |-> r.bytes]
    /\ UNCHANGED <<dir, files, record_count, storage, appended, visited,
                   returned, appends>>

\* Drop of the Storage: the handles are closed
storage_drop ==
    /\ storage
    /\ storage' = FALSE
    /\ files' = << >>
    /\ record_count' = 0
    /\ sret' = [op |-> "drop", res |-> "Ok"]
    /\ returned' = << >>
    /\ UNCHANGED <<dir, appended, visited, appends>>

StorageNext ==
    \/ storage_init /\ UNCHANGED vars
    \/ storage_drop /\ UNCHANGED vars
    \/ \E bytes \in Payloads(appends) :
          storage_write_record(bytes) /\ appends' <= MaxAppends /\ UNCHANGED vars
    \/ \E i \in DOMAIN returned :
          storage_read_record(returned[i].position) /\ UNCHANGED vars

StorageSpec == Init /\ [][StorageNext]_svars

(***************************************************************************)
(* Storage::replace.  The Storage it is given lives in a directory of its  *)
(* own; it is modelled as the value that write_record built there.         *)
(***************************************************************************)
\* calls of write_record on the live log in a run with replace
MaxLiveAppends == 2
\* calls of write_record that built the log handed to replace
MaxOtherAppends == 2

\* the payload of the n-th write_record on the other log
OtherPayload(n) == <<100 + n>>

\* the Storage that n calls of write_record built in an empty directory:
\* its directory, handles and record_count, and the positions it returned
RECURSIVE other_log(_)
other_log(n) ==
    IF n = 0
    THEN [dir |-> create(EmptyDir, 0), files |-> <<0>>, record_count |-> 0,
          returned |-> << >>]
    ELSE LET o == other_log(n - 1)
             w == write_record_to(o.files, o.dir, o.record_count, OtherPayload(n))
         IN  [dir |-> w.dir, files |-> w.files, record_count |-> w.record_count,
              returned |-> Append(o.returned, [bytes |-> OtherPayload(n),
                                               position |-> w.position])]

\* read_dir: the entries of a directory in an order the file system chooses
read_dir(ids) ==
    {order \in [1..Cardinality(ids) -> ids] :
        \A i, j \in DOMAIN order : order[i] = order[j] => i = j}

\* the directory d with only the files of keep left in it
only_files(d, keep) == [id \in keep |-> d[id]]

\* what the directory can hold when the closure roll_back fails: the new
\* files it had not removed yet, or the backed up files it had copied back
roll_back_failed(d, other) ==
    {only_files(other.dir, keep) : keep \in (SUBSET DOMAIN other.dir) \ {DOMAIN other.dir}}
    \cup {only_files(d, keep) : keep \in (SUBSET DOMAIN d) \ {DOMAIN d}}

\* replace returns an error.  unlinked: files the handles of the Storage are
\* open on were removed from the directory; such a Storage writes to files
\* that no directory holds, and the model closes it.
replace_fails(d, unlinked) ==
    /\ dir' = d
    /\ sret' = [op |-> "replace", res |-> "Err"]
    /\ IF unlinked
       THEN /\ storage' = FALSE
            /\ files' = << >>
            /\ record_count' = 0
            /\ returned' = << >>
       ELSE UNCHANGED <<storage, files, record_count, returned>>
    /\ UNCHANGED <<appended, visited, appends>>

\* Storage::replace
storage_replace(other) ==
    /\ storage
    /\ \/ \* every step succeeds: the handles are opened in the order of read_dir
          \E order \in read_dir(DOMAIN other.dir) :
              /\ dir' = other.dir
              /\ files' = order
              /\ record_count' = other.record_count
              /\ returned' = other.returned
              /\ appended' = other.returned
              /\ sret' = [op |-> "replace", res |-> "Ok", other |-> other]
              /\ UNCHANGED <<storage, visited, appends>>
       \/ \* TempDir::new, the listing of the old files or a copy to the backup
          \* fails: nothing was removed
          replace_fails(dir, FALSE)
       \/ \* remove_file fails on an old file: those before it are gone
          \E removed \in (SUBSET DOMAIN dir) \ {DOMAIN dir} :
              replace_fails(only_files(dir, (DOMAIN dir) \ removed), TRUE)
       \/ \* read_dir of the other directory or file_type of an entry fails:
          \* the error is returned with the entries before it copied
          \E copied \in (SUBSET DOMAIN other.dir) \ {DOMAIN other.dir} :
              replace_fails(only_files(other.dir, copied), TRUE)
       \/ \* an entry or a copy fails and roll_back restores the backup
          replace_fails(dir, TRUE)
       \/ \* an entry or a copy fails and roll_back fails too
          \E d \in roll_back_failed(dir, other) : replace_fails(d, TRUE)
       \/ \* the listing or the opening of the new files fails
          replace_fails(other.dir, TRUE)

ReplaceNext ==
    \/ storage_init /\ UNCHANGED vars
    \/ storage_drop /\ UNCHANGED vars
    \/ \E bytes \in Payloads(appends) :
          storage_write_record(bytes) /\ appends' <= MaxLiveAppends /\ UNCHANGED vars
    \/ \E i \in DOMAIN returned :
          storage_read_record(returned[i].position) /\ UNCHANGED vars
    \/ \E n \in 0..MaxOtherAppends :
          storage_replace(other_log(n)) /\ UNCHANGED vars

ReplaceSpec == Init /\ [][ReplaceNext]_svars

(***************************************************************************)
(* The properties.                                                         *)
(***************************************************************************)
NonEmptyKeys == Keys \ {<< >>}

Found(v) == [res |-> "Ok", val |-> Some(v)]
NotFound == [res |-> "Ok", val |-> None]

\* the value the calls made so far give key k: its last successful set, unless
\* a successful remove came after it
Expected(k) ==
    IF lastOp[k] # None /\ lastOp[k][1].tag = "Set"
    THEN Found(lastOp[k][1].value)
    ELSE NotFound

\* k was never set, or its last successful set was followed by a remove
NoValue(k) == Expected(k) = NotFound

\* the record the index entry position locates in f: [ok, rec]
record_at(f, position) ==
    LET rd == read_exact_at(f, payload_start(position), position[2]) IN
    IF rd.ok THEN from_slice(rd.bytes) ELSE [ok |-> FALSE, rec |-> Remove(<< >>)]

\* the step is a call of op that reached write_record
Wrote(op) == ret'.op = op /\ written' = written + 1

\* C1: in the state a successful set(k, v) returns in, get(k) returns Some(v),
\* whatever the store held before (other keys, an older value of k, the bytes
\* of a failed write).
C1_RoundTrip ==
    (opened /\ ret.op = "set" /\ ret.res = "Ok")
        => get_result(index, file, ret.key) = Found(ret.value)

\* a set of a value that needs escaping succeeded after a write had failed
C1_Witness ==
    /\ opened /\ ret.op = "set" /\ ret.res = "Ok"
    /\ ret.value = <<34>> /\ faults = 1
    /\ get_result(index, file, ret.key) = Found(<<34>>)

\* C2: while the last successful set or remove of k is a remove, get(k) returns
\* Ok(None): right after the remove, after later calls on k that are no set,
\* and after the store was dropped and opened again.
C2_Deletion ==
    opened => \A k \in NonEmptyKeys :
        (lastOp[k] = Some(Remove(k))) => get_result(index, file, k) = NotFound

\* get(k) has just returned Ok(None) for a key that was set and then removed
C2_Witness ==
    /\ opened /\ ret.op = "get" /\ ret.res = "Ok" /\ ret.val = None
    /\ lastOp[ret.key] = Some(Remove(ret.key))
    /\ count_records(file, 0, Len(file)) >= 2

\* C3: a remove(k) made while k has no value returns KeyNotFound and leaves the
\* file as it is.
C3_RemoveOfMissingFails ==
    [][\A k \in NonEmptyKeys :
        (opened /\ NoValue(k) /\ ret'.op = "remove" /\ ret'.key = k)
            => (ret'.res = "KeyNotFound" /\ file' = file)]_vars

\* C4: when no write has failed, the store that open returns gives every key
\* the result get gave before the store was dropped, which is the key's last
\* written value, or Ok(None) for a key removed or never set.
C4_Persistence ==
    (opened /\ ret.op = "open" /\ ret.res = "Ok" /\ faults = 0)
        => /\ \A k \in Keys : get_result(index, file, k) = snapshot[k]
           /\ \A k \in NonEmptyKeys : get_result(index, file, k) = Expected(k)

\* a store opened again on a log that holds an overwritten key and a removed key
C4_Witness ==
    /\ opened /\ ret.op = "open" /\ ret.res = "Ok" /\ faults = 0
    /\ lastOp[<<97>>] = Some(Remove(<<97>>))
    /\ lastOp[<<98>>] = Some(Set(<<98>>, <<34>>))
    /\ written = 3

\* C5: every key of the index points at a Set record holding the key's current
\* value, and every key that is not in the index has no value.
C5_IndexInvariant ==
    opened =>
        /\ \A k \in DOMAIN index :
              LET r == record_at(file, index[k]) IN
              r.ok /\ r.rec.tag = "Set" /\ Found(r.rec.value) = Expected(k)
        /\ \A k \in NonEmptyKeys \ DOMAIN index : NoValue(k)

\* C6: a successful set(k, b) of a key whose value is a makes get(k) return b,
\* keeps the record of a where it was, and points the index at the new record,
\* which lies behind the old one.
C6_Overwrite ==
    [][\A k \in NonEmptyKeys, a \in Values, b \in Values :
        (/\ opened /\ lastOp[k] = Some(Set(k, a))
         /\ Wrote("set") /\ ret'.key = k /\ ret'.value = b /\ ret'.res = "Ok")
        => /\ get_result(index', file', k) = Found(b)
           /\ record_at(file', index[k]) = [ok |-> TRUE, rec |-> Set(k, a)]
           /\ record_at(file', index'[k]) = [ok |-> TRUE, rec |-> Set(k, b)]
           /\ index'[k][1] >= payload_start(index[k]) + index[k][2]]_vars

\* a key was set to one value and then to another
C6_Witness ==
    /\ opened /\ ret.op = "set" /\ ret.res = "Ok" /\ ret.value = <<34>>
    /\ written = 2 /\ count_records(file, 0, Len(file)) = 2
    /\ record_at(file, <<0, Len(to_string(Set(ret.key, <<49>>)))>>)
           = [ok |-> TRUE, rec |-> Set(ret.key, <<49>>)]

\* C7: set, get and remove of the empty key return InvalidKey and change
\* neither the file nor the index.
C7_InvalidKey ==
    [][(ret'.op \in {"set", "get", "remove"} /\ ret'.key = << >>)
        => (ret'.res = "InvalidKey" /\ file' = file /\ index' = index)]_vars

\* remove("") was refused by a store that holds records
C7_Witness ==
    /\ opened /\ ret.op = "remove" /\ ret.key = << >> /\ ret.res = "InvalidKey"
    /\ index # EmptyIndex /\ file # << >>

\* C8: a set or remove that returns a failure leaves the file and the index as
\* they were.
C8_FailureAtomicity ==
    [][(ret'.op \in {"set", "remove"} /\ ret'.res # "Ok")
        => (file' = file /\ index' = index)]_vars

\* the keys that have a value
Live == {k \in NonEmptyKeys : ~NoValue(k)}

\* C9: a successful set or remove that brings the record count to the
\* threshold or beyond returns with the log compacted: every key gives the
\* value it had, and the log holds one record per live key instead of one per
\* call.
C9_Compaction ==
    [][(/\ opened /\ ret'.op \in {"set", "remove"} /\ ret'.res = "Ok"
        /\ log_count' = log_count + 1
        /\ log_count + 1 >= threshold)
        => /\ \A k \in NonEmptyKeys : get_result(index', file', k) = Expected(k)'
           /\ count_records(file', 0, Cardinality(Live') + 1)
                 = Cardinality(Live')]_vars

\* C10: for a key with no value, get returns Ok(None) and remove returns
\* KeyNotFound.
C10_GetRemoveAsymmetry ==
    [][\A k \in NonEmptyKeys :
        (opened /\ NoValue(k) /\ ret'.key = k)
            => /\ (ret'.op = "get") => (ret'.res = "Ok" /\ ret'.val = None)
               /\ (ret'.op = "remove") => (ret'.res = "KeyNotFound")]_vars

\* the complete length-prefixed records of a log, in order: [offset, length]
RECURSIVE log_entries(_, _)
log_entries(bytes, cursor) ==
    IF ~(cursor < Len(bytes)) \/ PrefixWidth > Len(bytes) - cursor THEN << >>
    ELSE LET length == from_be_bytes(SubSeq(bytes, cursor + 1, cursor + PrefixWidth))
             c == cursor + PrefixWidth
         IN  IF length > Len(bytes) - c THEN << >>
             ELSE <<[offset |-> cursor, length |-> length]>>
                     \o log_entries(bytes, c + length)

\* where the complete records of a log end
entries_end(bytes) ==
    LET e == log_entries(bytes, 0) IN
    IF e = << >> THEN 0
    ELSE e[Len(e)].offset + PrefixWidth + e[Len(e)].length

\* the log ends in a record that is cut short: bytes follow its complete
\* records, fewer than a length prefix or fewer than the prefix announces
CutShort(bytes) == entries_end(bytes) < Len(bytes)

\* C18: open on a log whose last record is cut short returns a failure value:
\* it neither panics nor returns a store.
C18_CorruptLogOnOpen ==
    (ret.op = "open" /\ CutShort(file)) => ret.res \notin {"Ok", "Panic"}

\* C19: when no write has failed, every index entry of key k is one of the
\* complete records of the log, that record has key k, and no record behind it
\* in the log has key k.
C19_IndexLocatesLastRecord ==
    (opened /\ faults = 0) =>
        LET e == log_entries(file, 0)
            key_of(i) == record_at(file, <<e[i].offset, e[i].length>>).rec.key
        IN  \A k \in DOMAIN index :
                \E i \in DOMAIN e :
                    /\ <<e[i].offset, e[i].length>> = index[k]
                    /\ record_at(file, index[k]).ok
                    /\ key_of(i) = k
                    /\ \A j \in DOMAIN e : j > i => key_of(j) # k

\* a store opened again on three records, two of them of the same key
C19_Witness ==
    /\ opened /\ faults = 0 /\ ret.op = "open" /\ written = 3
    /\ Cardinality(DOMAIN index) = 2
    /\ Len(log_entries(file, 0)) = 3

\* C20: a successful set or remove appends the one record of the call to the
\* log and changes none of the bytes that were there; a get, and a call
\* refused with InvalidKey or KeyNotFound, changes neither the log nor the
\* index.
C20_AppendOnly ==
    [][/\ (ret'.op \in {"set", "remove"} /\ ret'.res = "Ok")
            => LET record == IF ret'.op = "set" THEN Set(ret'.key, ret'.value)
                             ELSE Remove(ret'.key)
                   bytes == to_string(record)
               IN  file' = file \o to_be_bytes(Len(bytes)) \o bytes
       /\ (ret'.op = "get" \/ ret'.res \in {"InvalidKey", "KeyNotFound"})
            => (file' = file /\ index' = index)]_vars

\* a remove has appended the third record of the log
C20_Witness ==
    /\ opened /\ ret.op = "remove" /\ ret.res = "Ok" /\ faults = 0
    /\ Len(log_entries(file, 0)) = 3

(***************************************************************************)
(* The properties of the segment log.                                      *)
(***************************************************************************)
\* the number of records the segment id holds
records_in(id) == count_records(dir[id], 0, Len(dir[id]))

\* the segment the last handle is open on
last_segment == files[Len(files)]

\* C11: the init of a directory that write_record filled from empty passes
\* its visitor the payloads in the order they were appended, each with the
\* position write_record returned for it.
C11_ReplayOrder ==
    (sret.op = "init" /\ sret.res = "Ok") => visited = appended

\* C12: record_count is the number of records of the last segment.
C12_RecordCount ==
    storage => record_count = records_in(last_segment)

\* C13: every segment but the last holds exactly the cap of records, and the
\* last holds no more.
C13_RolloverAtCap ==
    (storage /\ sret.op = "write_record") =>
        /\ \A i \in 1..(Len(files) - 1) : records_in(files[i]) = SegmentCap
        /\ records_in(last_segment) <= SegmentCap

\* C17: every position this Storage returned from write_record starts at the
\* length prefix of its payload, and read_record of it returns the payload,
\* whatever was appended and rolled over after it.
C17_AppendReadRoundTrip ==
    storage =>
        \A i \in DOMAIN returned :
            LET p == returned[i].position
                b == returned[i].bytes
            IN  /\ p.file < Len(files)
                /\ read_exact_at(dir[files[p.file + 1]], p.offset, PrefixWidth)
                       = [ok |-> TRUE, bytes |-> to_be_bytes(Len(b))]
                /\ read_record(files, dir, p) = [res |-> "Ok", bytes |-> b]

\* read_record has returned a payload of the first segment after two rollovers
C17_Witness ==
    /\ storage /\ sret.op = "read_record" /\ sret.res = "Ok"
    /\ sret.position.file = 0 /\ sret.position.offset > 0
    /\ Len(files) >= 3
    /\ sret.bytes = returned[SegmentCap].bytes

\* the segment with the highest id in the directory d
highest_id(d) == CHOOSE id \in DOMAIN d : \A other \in DOMAIN d : other <= id

\* C14: write_record appends to the segment with the highest id of the
\* directory and leaves the bytes of every other segment as they were.
C14_OnlyLastSegmentAppended ==
    [][(storage /\ appends' = appends + 1) =>
          /\ dir'[highest_id(dir)] # dir[highest_id(dir)]
          /\ \A id \in (DOMAIN dir) \ {highest_id(dir)} : dir'[id] = dir[id]]_svars

\* C15: after a replace that succeeded the directory holds the files of the
\* other log and no others, the handles are in the order of the segment ids,
\* and read_record of every position the other log returned gives the bytes
\* that were appended there.
C15_ReplaceSuccess ==
    (sret.op = "replace" /\ sret.res = "Ok") =>
        /\ dir = sret.other.dir
        /\ \A i \in DOMAIN files : files[i] = i - 1
        /\ \A i \in DOMAIN sret.other.returned :
               read_record(files, dir, sret.other.returned[i].position)
                   = [res |-> "Ok", bytes |-> sret.other.returned[i].bytes]

\* C16: a replace that returns an error leaves the directory with the files
\* and the contents it had before the call.
C16_ReplaceFailure ==
    [][(sret'.op = "replace" /\ sret'.res = "Err") => dir' = dir]_svars

====
